---- MODULE Spec2Model ----
(***************************************************************************)
(* Model of terraform-provider-pocinfobipemails: the provider's Configure,  *)
(* the email template resource's Configure / Create / Read / Update /       *)
(* Delete / ImportState handlers, the html plan modifier and normalizeHTML. *)
(*                                                                          *)
(* A Go string that the code inspects character by character (html, id) is  *)
(* a sequence of one-character tokens; "VT" stands for the vertical tab,    *)
(* which unicode.IsSpace accepts and the regexp class \s does not.  Every   *)
(* other Go string is a TLA+ string.                                        *)
(***************************************************************************)
EXTENDS Integers, Sequences, FiniteSets, TLC

VARIABLES
    norm,       \* normalizeHTML under test: its input and successive outputs
    pm,         \* one PlanModifyString call: request and response
    env,        \* process environment of the provider (os.Getenv)
    prov,       \* the provider's last Configure call: config, locals, response
    r,          \* EmailTemplateResource: infobipClient, apiKey
    state,      \* Terraform state of the resource instance
    plan,       \* planned new state waiting to be applied
    importing,  \* an import is waiting for its Read
    remote,     \* the remote service: stored templates and the next id
    now,        \* wall clock, in seconds
    last        \* the last resource handler call: request, response, outcome

vars == <<norm, pm, env, prov, r, state, plan, importing, remote, now, last>>

-----------------------------------------------------------------------------
(* Bounds *)

MaxHtmlLen == 4     \* longest raw string given to normalizeHTML
MaxPlanLen == 2     \* longest html value given to the plan modifier
MaxVariantLen == 3  \* longest raw string whose rewritings are normalized beside it
MaxId == 2          \* ids the remote service hands out: 1..MaxId
MaxClock == 1       \* last second of the wall clock

-----------------------------------------------------------------------------
(* Strings *)

\* unicode.IsSpace, used by strings.TrimSpace and strings.Fields
IsSpace(c) == c \in {" ", "\t", "\n", "VT", "\f", "\r"}

\* the regexp class \s (RE2): no vertical tab
IsReSpace(c) == c \in {" ", "\t", "\n", "\f", "\r"}

HtmlAlphabet == {"<", ">", " ", "\t", "\r", "\n", "VT", "a"}

RECURSIVE SeqsUpTo(_, _)
SeqsUpTo(S, n) ==
    IF n = 0 THEN {<<>>}
    ELSE LET shorter == SeqsUpTo(S, n - 1)
         IN  shorter \cup {Append(s, c) : s \in {t \in shorter : Len(t) = n - 1}, c \in S}

Tail2(s) == SubSeq(s, 3, Len(s))

\* strings.ReplaceAll(raw, "\r\n", "\n")
RECURSIVE ReplaceAllCRLF(_)
ReplaceAllCRLF(s) ==
    IF Len(s) = 0 THEN <<>>
    ELSE IF Len(s) >= 2 /\ s[1] = "\r" /\ s[2] = "\n"
         THEN <<"\n">> \o ReplaceAllCRLF(Tail2(s))
         ELSE <<s[1]>> \o ReplaceAllCRLF(Tail(s))

RECURSIVE TrimLeft(_)
TrimLeft(s) ==
    IF Len(s) > 0 /\ IsSpace(s[1]) THEN TrimLeft(Tail(s)) ELSE s

RECURSIVE TrimRight(_)
TrimRight(s) ==
    IF Len(s) > 0 /\ IsSpace(s[Len(s)]) THEN TrimRight(SubSeq(s, 1, Len(s) - 1)) ELSE s

\* strings.TrimSpace
TrimSpace(s) == TrimRight(TrimLeft(s))

\* the first field of s, which does not start with white space
RECURSIVE FirstField(_)
FirstField(s) ==
    IF Len(s) = 0 \/ IsSpace(s[1]) THEN <<>> ELSE <<s[1]>> \o FirstField(Tail(s))

\* strings.Fields: the maximal runs of non-space characters
RECURSIVE Fields(_)
Fields(s) ==
    LET t == TrimLeft(s)
        f == FirstField(t)
    IN  IF Len(t) = 0 THEN <<>>
        ELSE <<f>> \o Fields(SubSeq(t, Len(f) + 1, Len(t)))

\* strings.Join(fs, " ")
RECURSIVE JoinSpace(_)
JoinSpace(fs) ==
    IF Len(fs) = 0 THEN <<>>
    ELSE IF Len(fs) = 1 THEN fs[1]
    ELSE fs[1] \o <<" ">> \o JoinSpace(Tail(fs))

\* number of leading \s characters of s
RECURSIVE ReSpaceRun(_)
ReSpaceRun(s) ==
    IF Len(s) > 0 /\ IsReSpace(s[1]) THEN 1 + ReSpaceRun(Tail(s)) ELSE 0

\* regexp.MustCompile(`>[\s]*<`).ReplaceAllString(s, "><"): leftmost matches,
\* none overlapping; a match starts at ">" and ends at the "<" that follows the
\* longest run of \s.
RECURSIVE ReplaceInterTag(_)
ReplaceInterTag(s) ==
    IF Len(s) = 0 THEN <<>>
    ELSE LET rest == Tail(s)
             k == ReSpaceRun(rest)
         IN  IF s[1] = ">" /\ Len(rest) > k /\ rest[k + 1] = "<"
             THEN <<">", "<">> \o ReplaceInterTag(SubSeq(rest, k + 2, Len(rest)))
             ELSE <<s[1]>> \o ReplaceInterTag(rest)

\* faulty variant: the text is trimmed but its fields are not split and joined
normalizeHTMLTrimOnly(raw) ==
    ReplaceInterTag(TrimSpace(ReplaceAllCRLF(raw)))

\* faulty variant: the inter-tag pattern is applied to the raw text, before the fields are joined
normalizeHTMLRegexFirst(raw) ==
    JoinSpace(Fields(TrimSpace(ReplaceInterTag(ReplaceAllCRLF(raw)))))

normalizeHTML(raw) ==
    ReplaceInterTag(JoinSpace(Fields(TrimSpace(ReplaceAllCRLF(raw)))))

\* faulty variant: white space is collapsed but kept between tags
normalizeKeepsInterTag(raw) ==
    JoinSpace(Fields(TrimSpace(ReplaceAllCRLF(raw))))

\* the closure of the plan modifier: the same four steps, written out again
normalize(raw) ==
    ReplaceInterTag(JoinSpace(Fields(TrimSpace(ReplaceAllCRLF(raw)))))

-----------------------------------------------------------------------------
(* types.String and types.Bool of the plugin framework *)

StringNull(empty) == [kind |-> "null", value |-> empty]
StringUnknown(empty) == [kind |-> "unknown", value |-> empty]
StringValue(v) == [kind |-> "known", value |-> v]
IsNull(s) == s.kind = "null"
IsUnknown(s) == s.kind = "unknown"
\* ValueString: "" for a null or unknown value
ValueString(s) == s.value

BoolNull == [kind |-> "null", value |-> FALSE]
BoolUnknown == [kind |-> "unknown", value |-> FALSE]
BoolValue(b) == [kind |-> "known", value |-> b]

NullStr == StringNull("")
NullSeq == StringNull(<<>>)

-----------------------------------------------------------------------------
(* The html plan modifier *)

\* htmlWhitespaceInsensitiveModifier.PlanModifyString: the value of
\* resp.PlanValue when it returns (the framework hands it over as req.PlanValue)
PlanModifyString(StateValue, PlanValue) ==
    IF IsNull(StateValue) \/ IsNull(PlanValue) THEN PlanValue
    ELSE LET oldVal == normalize(ValueString(StateValue))
             newVal == normalize(ValueString(PlanValue))
         IN  IF oldVal = newVal THEN StateValue ELSE PlanValue

\* normalizeHTML's calls: the raw input, a second input beside it, the results
NormIdle == [raw |-> <<>>, alt |-> <<>>, outs |-> <<>>]
PmIdle == [called |-> FALSE,
           req |-> [StateValue |-> NullSeq, PlanValue |-> NullSeq],
           resp |-> [PlanValue |-> NullSeq]]

\* one more application of normalizeHTML, to the raw input and then to its own output
NormalizeStep ==
    /\ Len(norm.outs) < 2
    /\ LET arg == IF norm.outs = <<>> THEN norm.raw ELSE norm.outs[Len(norm.outs)]
       IN  norm' = [norm EXCEPT !.outs = Append(@, normalizeHTML(arg))]
    /\ UNCHANGED <<pm, env, prov, r, state, plan, importing, remote, now, last>>

\* normalizeHTML called on the raw input and on the input beside it
NormalizePair ==
    /\ norm.outs = <<>>
    /\ norm' = [norm EXCEPT !.outs = <<normalizeHTML(norm.raw), normalizeHTML(norm.alt)>>]
    /\ UNCHANGED <<pm, env, prov, r, state, plan, importing, remote, now, last>>

\* the framework's call of the modifier on the html attribute
PlanModify ==
    /\ ~pm.called
    /\ pm' = [pm EXCEPT !.called = TRUE,
                        !.resp = [PlanValue |->
                                    PlanModifyString(pm.req.StateValue, pm.req.PlanValue)]]
    /\ UNCHANGED <<norm, env, prov, r, state, plan, importing, remote, now, last>>

-----------------------------------------------------------------------------
(* Provider configuration *)

\* diagnostics: the error diagnostics in the order they were added
AddError(diags, summary) == Append(diags, [path |-> "", summary |-> summary])
AddAttributeError(diags, path, summary) == Append(diags, [path |-> path, summary |-> summary])
HasError(diags) == Len(diags) > 0

NoClient == [nil |-> TRUE, Host |-> ""]
\* api.NewAPIClient(configuration) with configuration.Host = host
NewAPIClient(host) == [nil |-> FALSE, Host |-> host]

\* *providerClient
NilProviderData == [nil |-> TRUE, client |-> NoClient, apiKey |-> ""]
providerClient(client, apiKey) == [nil |-> FALSE, client |-> client, apiKey |-> apiKey]

EnvBaseUrls == {"", "https://env.example"}
EnvApiKeys == {"", "env-key"}
Envs == [POCINFOBIPEMAILS_BASE_URL : EnvBaseUrls, POCINFOBIPEMAILS_API_KEY : EnvApiKeys]

ConfigValues(v) == {NullStr, StringUnknown(""), StringValue(""), StringValue(v)}
\* pocInfobipEmailsProviderModel
ProviderConfigs == [BaseUrl : ConfigValues("https://cfg.example"), ApiKey : ConfigValues("cfg-key")]

\* what GetAllEmailTemplates(auth).Execute() can return: an error, a response with
\* a result list, a response without one, or no response at all (a body of null)
VerifyOutcomes ==
    {[err |-> TRUE, apiResponse |-> "nil"],
     [err |-> FALSE, apiResponse |-> "results"],
     [err |-> FALSE, apiResponse |-> "noResults"],
     [err |-> FALSE, apiResponse |-> "nil"]}

\* faulty variant: an empty configuration value falls back to the environment as well
ResolveValueNonEmpty(configValue, envValue) ==
    IF ValueString(configValue) # "" THEN ValueString(configValue) ELSE envValue

\* the environment variable, overridden by the configuration value if that is set
ResolveValue(configValue, envValue) ==
    IF ~IsNull(configValue) THEN ValueString(configValue) ELSE envValue

\* pocinfobipemailsProvider.Configure, as a function of its inputs: the locals
\* base_url, api_key and infobipClient as far as they were assigned, and the response
ConfigureResult(config, e, verify) ==
    LET d1 == IF IsUnknown(config.BaseUrl)
              THEN AddAttributeError(<<>>, "base_url", "Unknown Infobip API base url")
              ELSE <<>>
        d2 == IF IsUnknown(config.ApiKey)
              THEN AddAttributeError(d1, "api_key", "Unknown Infobip API key")
              ELSE d1
        base_url == ResolveValue(config.BaseUrl, e.POCINFOBIPEMAILS_BASE_URL)
        api_key == ResolveValue(config.ApiKey, e.POCINFOBIPEMAILS_API_KEY)
        d3 == IF base_url = ""
              THEN AddAttributeError(d2, "base_url", "Missing Infobip API base url")
              ELSE d2
        d4 == IF api_key = ""
              THEN AddAttributeError(d3, "api_key", "Missing Infobip API key")
              ELSE d3
        infobipClient == NewAPIClient(base_url)
        d5 == IF verify.apiResponse # "results"
              THEN AddError(d4, "Invalid response")
              ELSE d4
        provData == providerClient(infobipClient, api_key)
        early(stage, diags, b, k) ==
            [stage |-> stage, base_url |-> b, api_key |-> k, infobipClient |-> NoClient,
             verifyCalled |-> FALSE, Diagnostics |-> diags,
             DataSourceData |-> NilProviderData, ResourceData |-> NilProviderData]
    IN  IF HasError(d2) THEN early("unknown", d2, "", "")
        ELSE IF HasError(d4) THEN early("missing", d4, base_url, api_key)
        ELSE IF verify.err
             THEN [early("verify", AddError(d4, "Failed to fetch all email templates"),
                         base_url, api_key)
                     EXCEPT !.infobipClient = infobipClient, !.verifyCalled = TRUE]
        ELSE [stage |-> "end", base_url |-> base_url, api_key |-> api_key,
              infobipClient |-> infobipClient, verifyCalled |-> TRUE, Diagnostics |-> d5,
              DataSourceData |-> provData, ResourceData |-> provData]

NotConfigured ==
    [called |-> FALSE,
     config |-> [BaseUrl |-> NullStr, ApiKey |-> NullStr],
     verify |-> [err |-> FALSE, apiResponse |-> "nil"],
     res |-> [stage |-> "none", base_url |-> "", api_key |-> "", infobipClient |-> NoClient,
              verifyCalled |-> FALSE, Diagnostics |-> <<>>,
              DataSourceData |-> NilProviderData, ResourceData |-> NilProviderData]]

Configured(config, e, verify) ==
    [called |-> TRUE, config |-> config, verify |-> verify,
     res |-> ConfigureResult(config, e, verify)]

\* EmailTemplateResource before its Configure
NewEmailTemplateResource == [infobipClient |-> NoClient, apiKey |-> ""]

\* the provider's Configure, once per provider process
ProviderConfigure ==
    /\ ~prov.called
    /\ \E config \in ProviderConfigs, verify \in VerifyOutcomes :
          prov' = Configured(config, env, verify)
    /\ UNCHANGED <<norm, pm, env, r, state, plan, importing, remote, now, last>>

\* EmailTemplateResource.Configure: req.ProviderData is what the provider's
\* Configure left in resp.ResourceData
ResourceConfigure ==
    /\ prov.called
    /\ r.infobipClient.nil
    /\ LET pd == prov.res.ResourceData
       IN  r' = IF pd.nil THEN r
                ELSE [infobipClient |-> pd.client, apiKey |-> pd.apiKey]
    /\ UNCHANGED <<norm, pm, env, prov, state, plan, importing, remote, now, last>>

-----------------------------------------------------------------------------
(* Resource data model *)

\* EmailTemplateResourceModel with every attribute null
NullModel ==
    [ID |-> NullSeq, Name |-> NullStr, From |-> NullStr, ReplyTo |-> NullStr,
     Subject |-> NullStr, Preheader |-> NullStr, Html |-> NullSeq,
     IsHtmlEditable |-> BoolNull, LandingPage |-> NullStr, ImagePreviewUrl |-> NullStr,
     CreatedAt |-> NullStr, UpdatedAt |-> NullStr]

\* tfsdk.State / tfsdk.Plan: absent (a null raw value), or a model; beside the
\* plan, the html of the configuration it was computed from
NoState == [exists |-> FALSE, m |-> NullModel]
NoPlan == [exists |-> FALSE, m |-> NullModel, configHtml |-> NullSeq]

\* the fields a create or update request carries
NoFields ==
    [Name |-> "", From |-> "", ReplyTo |-> "", Subject |-> "", Preheader |-> "",
     HTML |-> <<>>, LandingPageID |-> ""]

\* the request built from the plan: each attribute's ValueString
RequestFields(p) ==
    [Name |-> ValueString(p.Name), From |-> ValueString(p.From),
     ReplyTo |-> ValueString(p.ReplyTo), Subject |-> ValueString(p.Subject),
     Preheader |-> ValueString(p.Preheader), HTML |-> ValueString(p.Html),
     LandingPageID |-> ValueString(p.LandingPage)]

\* the email template of a response body, with Go's zero values
ZeroTemplate ==
    [ID |-> 0, Name |-> "", From |-> "", ReplyTo |-> "", Subject |-> "", Preheader |-> "",
     HTML |-> <<>>, IsHTMLEditable |-> FALSE, LandingPageID |-> "", ImagePreviewURL |-> "",
     CreatedAt |-> "", UpdatedAt |-> ""]

\* what the service decides by itself in a response
Metas ==
    {[IsHTMLEditable |-> TRUE, ImagePreviewURL |-> "img", CreatedAt |-> "", UpdatedAt |-> ""],
     [IsHTMLEditable |-> FALSE, ImagePreviewURL |-> "",
      CreatedAt |-> "2020-01-01T00:00:00Z", UpdatedAt |-> "2021-06-01T00:00:00Z"]}

Template(id, f, meta) ==
    [ID |-> id, Name |-> f.Name, From |-> f.From, ReplyTo |-> f.ReplyTo,
     Subject |-> f.Subject, Preheader |-> f.Preheader, HTML |-> f.HTML,
     IsHTMLEditable |-> meta.IsHTMLEditable, LandingPageID |-> f.LandingPageID,
     ImagePreviewURL |-> meta.ImagePreviewURL,
     CreatedAt |-> meta.CreatedAt, UpdatedAt |-> meta.UpdatedAt]

\* (emailTemplate, httpResponse, err) of an Execute()
NilHttp == [nil |-> TRUE, StatusCode |-> 0]
Http(code) == [nil |-> FALSE, StatusCode |-> code]
NilBody == [nil |-> TRUE, t |-> ZeroTemplate]
Body(t) == [nil |-> FALSE, t |-> t]
Response(err, http, body) == [err |-> err, http |-> http, body |-> body]
NoResponse == Response(FALSE, NilHttp, NilBody)

\* a transport error (no HTTP response) or a non-2xx answer
Failures == {Response(TRUE, NilHttp, NilBody), Response(TRUE, Http(500), NilBody)}
NotFound == Response(TRUE, Http(404), NilBody)
\* a 2xx answer whose body does not decode: an error beside a value that is not nil
Undecodable == Response(TRUE, Http(200), Body(ZeroTemplate))

-----------------------------------------------------------------------------
(* The remote service *)

EmptySlot == [exists |-> FALSE, f |-> NoFields]
RemoteIds == 1..MaxId
Has(id) == id \in RemoteIds /\ remote.store[id].exists

\* CreateEmailTemplate(auth)...Execute(): the responses it can give, each with
\* the service's contents afterwards.  Beside an error, emailTemplate is nil when
\* Execute returns a pointer and the zero value when it does not: the client is
\* not part of this repository, and Create reads emailTemplate in both cases.
RemoteCreate(f) ==
    {[resp |-> x, remote |-> remote] : x \in Failures}
    \cup {[resp |-> Response(TRUE, x.http, Body(ZeroTemplate)), remote |-> remote] :
            x \in Failures}
    \cup
    IF remote.nextId \in RemoteIds
    THEN LET id == remote.nextId
             stored == [store |-> [remote.store EXCEPT ![id] = [exists |-> TRUE, f |-> f]],
                        nextId |-> id + 1]
         IN  {[resp |-> Response(FALSE, Http(200), Body(Template(id, f, meta))),
               remote |-> stored] : meta \in Metas}
             \cup {[resp |-> Undecodable, remote |-> stored]}
    ELSE {}

\* GetEmailTemplate(auth).ID(id).Execute()
RemoteGet(id) ==
    {[resp |-> x, remote |-> remote] : x \in Failures}
    \cup
    IF Has(id)
    THEN {[resp |-> Response(FALSE, Http(200), Body(Template(id, remote.store[id].f, meta))),
           remote |-> remote] : meta \in Metas}
    ELSE {[resp |-> NotFound, remote |-> remote]}

\* UpdateEmailTemplate(auth).ID(id)...Execute()
RemoteUpdate(id, f) ==
    {[resp |-> x, remote |-> remote] : x \in Failures}
    \cup
    IF Has(id)
    THEN LET stored == [remote EXCEPT !.store[id] = [exists |-> TRUE, f |-> f]]
         IN  {[resp |-> Response(FALSE, Http(200), Body(Template(id, f, meta))),
               remote |-> stored] : meta \in Metas}
    ELSE {[resp |-> NotFound, remote |-> remote]}

\* RemoveEmailTemplate(auth).ID(id).Execute()
RemoteRemove(id) ==
    {[resp |-> x, remote |-> remote] : x \in Failures}
    \cup
    IF Has(id)
    THEN {[resp |-> Response(FALSE, Http(204), NilBody),
           remote |-> [remote EXCEPT !.store[id] = EmptySlot]]}
    ELSE {[resp |-> NotFound, remote |-> remote]}

-----------------------------------------------------------------------------
(* Conversions *)

DigitTokens == <<"0", "1", "2", "3", "4", "5", "6", "7", "8", "9">>
IsDigit(c) == \E d \in 1..10 : DigitTokens[d] = c
DigitValue(c) == (CHOOSE d \in 1..10 : DigitTokens[d] = c) - 1

\* fmt.Sprintf("%d", n)
RECURSIVE Sprintf(_)
Sprintf(n) ==
    IF n < 0 THEN <<"-">> \o Sprintf(0 - n)
    ELSE IF n < 10 THEN <<DigitTokens[n + 1]>>
    ELSE Sprintf(n \div 10) \o <<DigitTokens[(n % 10) + 1]>>

RECURSIVE SkipSpace(_)
SkipSpace(s) ==
    IF Len(s) > 0 /\ s[1] \in {" ", "\t"} THEN SkipSpace(Tail(s)) ELSE s

RECURSIVE LeadingDigits(_)
LeadingDigits(s) ==
    IF Len(s) > 0 /\ IsDigit(s[1]) THEN <<s[1]>> \o LeadingDigits(Tail(s)) ELSE <<>>

RECURSIVE DecimalValue(_)
DecimalValue(ds) ==
    IF Len(ds) = 0 THEN 0
    ELSE 10 * DecimalValue(SubSeq(ds, 1, Len(ds) - 1)) + DigitValue(ds[Len(ds)])

\* var idInt int64; fmt.Sscanf(s, "%d", &idInt): leading space, an optional sign
\* and the digits that follow; idInt stays 0 when there is no digit (the error
\* Sscanf returns is dropped)
Sscanf(s) ==
    LET t == SkipSpace(s)
        signed == Len(t) > 0 /\ t[1] \in {"+", "-"}
        ds == LeadingDigits(IF signed THEN Tail(t) ELSE t)
    IN  IF Len(ds) = 0 THEN 0
        ELSE IF signed /\ t[1] = "-" THEN 0 - DecimalValue(ds)
        ELSE DecimalValue(ds)

\* time.Now().Format(time.RFC850), of the second t
FormatRFC850(t) == "RFC850 " \o ToString(t)

\* the clock after reading it at t: the same second or the next
Elapse(t) == {t, IF t < MaxClock THEN t + 1 ELSE t}

-----------------------------------------------------------------------------
(* Resource handlers *)

\* the user's configuration of the resource: the attributes that are not computed
BaseConfigs ==
    {[name |-> StringValue("n1"), from |-> StringValue("f1"), reply_to |-> NullStr,
      subject |-> StringValue("s1"), preheader |-> NullStr, landing_page |-> NullStr],
     [name |-> StringValue("n2"), from |-> StringValue("f2"), reply_to |-> StringValue("r2"),
      subject |-> StringValue("s2"), preheader |-> StringValue("p2"),
      landing_page |-> StringValue("1_2345")]}

\* "<a> \n<a>", "<a><a>" (the same document without the white space), "<a>a  a"
HtmlSpaced == <<"<", "a", ">", " ", "\n", "<", "a", ">">>
HtmlDense == <<"<", "a", ">", "<", "a", ">">>
HtmlText == <<"<", "a", ">", "a", " ", " ", "a">>

WithHtml(b, h) ==
    [name |-> b.name, from |-> b.from, reply_to |-> b.reply_to, subject |-> b.subject,
     preheader |-> b.preheader, html |-> StringValue(h), landing_page |-> b.landing_page]

ResourceConfigs ==
    {WithHtml(b, HtmlSpaced) : b \in {c \in BaseConfigs : IsNull(c.reply_to)}}
    \cup {WithHtml(b, h) : b \in {c \in BaseConfigs : ~IsNull(c.reply_to)},
                           h \in {HtmlDense, HtmlText}}

\* the ids a user imports: a template's id, the same with a leading zero, no number
ImportIds == {<<"1">>, <<"0", "1">>, <<"a">>}

NoCall ==
    [op |-> "none", called |-> FALSE, id |-> 0, sent |-> NoFields, resp |-> NoResponse,
     Diagnostics |-> <<>>, outcome |-> "none", prior |-> NoState, importId |-> <<>>,
     afterCreate |-> FALSE, applied |-> NullSeq]

\* the record of a handler's call; afterCreate marks a Read that is the first
\* handler to run after a Create whose request succeeded; applied is the configured
\* html of the latest Create or Update whose request succeeded
Call(op, id, sent, resp, diags, outcome) ==
    [op |-> op, called |-> TRUE, id |-> id, sent |-> sent, resp |-> resp,
     Diagnostics |-> diags, outcome |-> outcome, prior |-> state, importId |-> <<>>,
     afterCreate |-> (op = "Read" /\ last.op = "Create" /\ ~last.resp.err),
     applied |-> IF op \in {"Create", "Update"} /\ ~resp.err
                 THEN plan.configHtml ELSE last.applied]

ready == ~r.infobipClient.nil

\* the planned new state of the framework for configuration cfg: the configured
\* attributes, the computed ones unknown, html as the plan modifier leaves it
PlannedState(prior, cfg) ==
    LET lp == IF IsNull(cfg.landing_page) THEN StringUnknown("") ELSE cfg.landing_page
    IN  [ID |-> StringUnknown(<<>>), Name |-> cfg.name, From |-> cfg.from,
         ReplyTo |-> cfg.reply_to, Subject |-> cfg.subject, Preheader |-> cfg.preheader,
         Html |-> PlanModifyString(prior.Html, cfg.html),
         IsHtmlEditable |-> BoolUnknown, LandingPage |-> lp,
         ImagePreviewUrl |-> StringUnknown(""), CreatedAt |-> StringUnknown(""),
         UpdatedAt |-> StringUnknown("")]

\* the configuration differs from the prior state in an attribute it sets
Differs(prior, cfg) ==
    ~(/\ prior.Name = cfg.name /\ prior.From = cfg.from /\ prior.ReplyTo = cfg.reply_to
      /\ prior.Subject = cfg.subject /\ prior.Preheader = cfg.preheader
      /\ prior.Html = cfg.html
      /\ (IsNull(cfg.landing_page) \/ prior.LandingPage = cfg.landing_page))

\* planning: a plan to create, or to update when the configuration differs
Plan ==
    /\ ready /\ ~plan.exists /\ ~importing
    /\ \E cfg \in ResourceConfigs :
          /\ Differs(state.m, cfg)
          /\ plan' = [exists |-> TRUE, m |-> PlannedState(state.m, cfg),
                       configHtml |-> cfg.html]
    /\ last' = [NoCall EXCEPT !.op = "Plan", !.outcome = "returned",
                              !.applied = last.applied]
    /\ UNCHANGED <<norm, pm, env, prov, r, state, importing, remote, now>>

\* faulty variant: html is stored as the service returns it
CreatedModelRawHtml(t, t1, t2) ==
    [ID |-> StringValue(Sprintf(t.ID)), Name |-> StringValue(t.Name),
     From |-> StringValue(t.From), ReplyTo |-> StringValue(t.ReplyTo),
     Subject |-> StringValue(t.Subject), Preheader |-> StringValue(t.Preheader),
     Html |-> StringValue(t.HTML),
     IsHtmlEditable |-> BoolValue(t.IsHTMLEditable),
     LandingPage |-> StringValue(t.LandingPageID),
     ImagePreviewUrl |-> StringValue(t.ImagePreviewURL),
     CreatedAt |-> StringValue(FormatRFC850(t1)),
     UpdatedAt |-> StringValue(FormatRFC850(t2))]

\* Create, lines 176-189: the model that Create sets as state
CreatedModel(t, t1, t2) ==
    [ID |-> StringValue(Sprintf(t.ID)), Name |-> StringValue(t.Name),
     From |-> StringValue(t.From), ReplyTo |-> StringValue(t.ReplyTo),
     Subject |-> StringValue(t.Subject), Preheader |-> StringValue(t.Preheader),
     Html |-> StringValue(normalizeHTML(t.HTML)),
     IsHtmlEditable |-> BoolValue(t.IsHTMLEditable),
     LandingPage |-> StringValue(t.LandingPageID),
     ImagePreviewUrl |-> StringValue(t.ImagePreviewURL),
     CreatedAt |-> StringValue(FormatRFC850(t1)),
     UpdatedAt |-> StringValue(FormatRFC850(t2))]

\* Create's error check: the diagnostic is added and the handler goes on
CreateDiagnostics(resp) ==
    IF resp.err THEN AddError(<<>>, "Error Creating Email Template") ELSE <<>>

Create ==
    /\ ready /\ plan.exists /\ ~state.exists
    /\ LET sent == RequestFields(plan.m)
       IN  \E out \in RemoteCreate(sent) :
             LET diags == CreateDiagnostics(out.resp)
             IN  /\ remote' = out.remote
                 /\ plan' = NoPlan
                 /\ IF out.resp.body.nil
                    THEN \* emailTemplate.ID of a nil emailTemplate: the process panics
                         /\ last' = Call("Create", 0, sent, out.resp, diags, "panic")
                         /\ r' = NewEmailTemplateResource
                         /\ UNCHANGED <<state, now>>
                    ELSE \E t1 \in {now} : \E t2 \in Elapse(t1) :
                           /\ state' = [exists |-> TRUE,
                                        m |-> CreatedModel(out.resp.body.t, t1, t2)]
                           /\ now' = t2
                           /\ last' = Call("Create", 0, sent, out.resp, diags, "returned")
                           /\ r' = r
    /\ UNCHANGED <<norm, pm, env, prov, importing>>

\* faulty variant: subject is filled from the template's name
ReadModelSubjectFromName(t) ==
    [ID |-> StringValue(Sprintf(t.ID)), Name |-> StringValue(t.Name),
     From |-> StringValue(t.From), ReplyTo |-> StringValue(t.ReplyTo),
     Subject |-> StringValue(t.Name), Preheader |-> StringValue(t.Preheader),
     Html |-> StringValue(normalizeHTML(t.HTML)),
     IsHtmlEditable |-> BoolValue(t.IsHTMLEditable),
     LandingPage |-> StringValue(t.LandingPageID),
     ImagePreviewUrl |-> StringValue(t.ImagePreviewURL),
     CreatedAt |-> StringValue(t.CreatedAt),
     UpdatedAt |-> StringValue(t.UpdatedAt)]

\* Read, lines 231-244
ReadModel(t) ==
    [ID |-> StringValue(Sprintf(t.ID)), Name |-> StringValue(t.Name),
     From |-> StringValue(t.From), ReplyTo |-> StringValue(t.ReplyTo),
     Subject |-> StringValue(t.Subject), Preheader |-> StringValue(t.Preheader),
     Html |-> StringValue(normalizeHTML(t.HTML)),
     IsHtmlEditable |-> BoolValue(t.IsHTMLEditable),
     LandingPage |-> StringValue(t.LandingPageID),
     ImagePreviewUrl |-> StringValue(t.ImagePreviewURL),
     CreatedAt |-> StringValue(t.CreatedAt),
     UpdatedAt |-> StringValue(t.UpdatedAt)]

\* the state Read leaves for a response
ReadState(prior, resp) ==
    IF resp.err THEN prior ELSE [exists |-> TRUE, m |-> ReadModel(resp.body.t)]

Read ==
    /\ ready /\ state.exists /\ ~plan.exists
    /\ LET idInt == Sscanf(ValueString(state.m.ID))
       IN  \E out \in RemoteGet(idInt) :
             /\ remote' = out.remote
             /\ state' = ReadState(state, out.resp)
             /\ importing' = (importing /\ out.resp.err)
             /\ last' = Call("Read", idInt, NoFields, out.resp,
                             IF out.resp.err
                             THEN AddError(<<>>, "Error Reading HashiCups Order")
                             ELSE <<>>,
                             "returned")
    /\ UNCHANGED <<norm, pm, env, prov, r, plan, now>>

\* faulty variant: created_at is taken from the response
UpdatedCreatedAtFromResponse(prior, t, t1) == StringValue(t.CreatedAt)

\* Update, lines 314-319: created_at of the new state
UpdatedCreatedAt(prior, t, t1) ==
    IF ValueString(prior.CreatedAt) # "" THEN prior.CreatedAt
    ELSE StringValue(FormatRFC850(t1))

\* Update, line 320: updated_at of the new state
UpdatedUpdatedAt(t, t2) == StringValue(FormatRFC850(t2))

\* Update, lines 302-320
UpdatedModel(prior, t, t1, t2) ==
    [ID |-> StringValue(Sprintf(t.ID)), Name |-> StringValue(t.Name),
     From |-> StringValue(t.From), ReplyTo |-> StringValue(t.ReplyTo),
     Subject |-> StringValue(t.Subject), Preheader |-> StringValue(t.Preheader),
     Html |-> StringValue(normalizeHTML(t.HTML)),
     IsHtmlEditable |-> BoolValue(t.IsHTMLEditable),
     LandingPage |-> StringValue(t.LandingPageID),
     ImagePreviewUrl |-> StringValue(t.ImagePreviewURL),
     CreatedAt |-> UpdatedCreatedAt(prior, t, t1),
     UpdatedAt |-> UpdatedUpdatedAt(t, t2)]

\* faulty variant: the return after the error diagnostic is missing
UpdateStateNoReturn(prior, resp, t1, t2) ==
    [exists |-> TRUE, m |-> UpdatedModel(prior.m, resp.body.t, t1, t2)]

\* the state Update leaves for a response
UpdateState(prior, resp, t1, t2) ==
    IF resp.err THEN prior
    ELSE [exists |-> TRUE, m |-> UpdatedModel(prior.m, resp.body.t, t1, t2)]

Update ==
    /\ ready /\ plan.exists /\ state.exists
    /\ LET idInt == Sscanf(ValueString(state.m.ID))
           sent == RequestFields(plan.m)
       IN  \E out \in RemoteUpdate(idInt, sent) :
           \E t1 \in {now} : \E t2 \in Elapse(t1) :
             /\ remote' = out.remote
             /\ plan' = NoPlan
             /\ state' = UpdateState(state, out.resp, t1, t2)
             /\ now' = IF out.resp.err THEN now ELSE t2
             /\ last' = Call("Update", idInt, sent, out.resp,
                             IF out.resp.err
                             THEN AddError(<<>>, "Error Updating Email Template")
                             ELSE <<>>,
                             "returned")
    /\ UNCHANGED <<norm, pm, env, prov, r, importing>>

\* faulty variant: a 404 is an error like any other
DeleteRemovesOnSuccessOnly(resp) == ~resp.err

\* Delete, lines 357-373: the resource is removed from state
DeleteRemoves(resp) ==
    \/ ~resp.err
    \/ (~resp.http.nil /\ resp.http.StatusCode = 404)

\* Delete, lines 357-370: the diagnostics
DeleteDiagnostics(resp) ==
    IF resp.err /\ ~(~resp.http.nil /\ resp.http.StatusCode = 404)
    THEN AddError(<<>>, "Error Deleting Email Template")
    ELSE <<>>

Delete ==
    /\ ready /\ state.exists /\ ~plan.exists /\ ~importing
    /\ LET idInt == Sscanf(ValueString(state.m.ID))
       IN  \E out \in RemoteRemove(idInt) :
             /\ remote' = out.remote
             /\ state' = IF DeleteRemoves(out.resp) THEN NoState ELSE state
             /\ last' = [Call("Delete", idInt, NoFields, out.resp,
                              DeleteDiagnostics(out.resp), "returned")
                          EXCEPT !.applied = IF DeleteRemoves(out.resp)
                                             THEN NullSeq ELSE @]
    /\ UNCHANGED <<norm, pm, env, prov, r, plan, importing, now>>

\* faulty variant: the id is stored as the number it parses to
ImportedStateCanonical(id) ==
    [exists |-> TRUE, m |-> [NullModel EXCEPT !.ID = StringValue(Sprintf(Sscanf(id)))]]

\* resource.ImportStatePassthroughID(ctx, path.Root("id"), req, resp): the state
\* with the attribute id set to req.ID
ImportedState(id) == [exists |-> TRUE, m |-> [NullModel EXCEPT !.ID = StringValue(id)]]

ImportState ==
    /\ ready /\ ~state.exists /\ ~plan.exists
    /\ \E id \in ImportIds :
          /\ state' = ImportedState(id)
          /\ last' = [NoCall EXCEPT !.op = "ImportState", !.outcome = "returned",
                                    !.importId = id]
    /\ importing' = TRUE
    /\ UNCHANGED <<norm, pm, env, prov, r, plan, remote, now>>

\* the import is given up when the Read that follows it fails: nothing is saved
ImportAborted ==
    /\ importing /\ last.op = "Read" /\ HasError(last.Diagnostics)
    /\ state' = NoState
    /\ importing' = FALSE
    /\ last' = [NoCall EXCEPT !.op = "ImportAborted"]
    /\ UNCHANGED <<norm, pm, env, prov, r, plan, remote, now>>

\* the template is removed at the service by someone else
OutOfBandRemoval ==
    /\ \E id \in RemoteIds :
          /\ remote.store[id].exists
          /\ remote' = [remote EXCEPT !.store[id] = EmptySlot]
    /\ UNCHANGED <<norm, pm, env, prov, r, state, plan, importing, now, last>>

-----------------------------------------------------------------------------
(* Specifications *)

\* a template the service holds from the start, under id 1
StoredBefore ==
    [Name |-> "n0", From |-> "f0", ReplyTo |-> "", Subject |-> "s0", Preheader |-> "",
     HTML |-> <<"<", "a", ">", "\r", "\n", "<", "a", ">">>, LandingPageID |-> ""]

RemoteInit ==
    [store |-> [i \in RemoteIds |-> IF i = 1 THEN [exists |-> TRUE, f |-> StoredBefore]
                                     ELSE EmptySlot],
     nextId |-> 2]

GoodEnv == [POCINFOBIPEMAILS_BASE_URL |-> "", POCINFOBIPEMAILS_API_KEY |-> ""]
GoodConfig == [BaseUrl |-> StringValue("https://cfg.example"), ApiKey |-> StringValue("cfg-key")]

ResourceIdle ==
    /\ state = NoState /\ plan = NoPlan /\ importing = FALSE
    /\ remote = RemoteInit /\ now = 0 /\ last = NoCall

\* the resource's life: the provider is configured, the resource is not yet
Init ==
    /\ norm = NormIdle /\ pm = PmIdle
    /\ env = GoodEnv
    /\ prov = Configured(GoodConfig, GoodEnv, [err |-> FALSE, apiResponse |-> "results"])
    /\ r = NewEmailTemplateResource
    /\ ResourceIdle

Next ==
    \/ ResourceConfigure
    \/ Plan
    \/ Create
    \/ Read
    \/ Update
    \/ Delete
    \/ ImportState
    \/ ImportAborted
    \/ OutOfBandRemoval

Spec == Init /\ [][Next]_vars

\* the provider's configuration, from every environment
InitProvider ==
    /\ norm = NormIdle /\ pm = PmIdle
    /\ env \in Envs
    /\ prov = NotConfigured
    /\ r = NewEmailTemplateResource
    /\ ResourceIdle

NextProvider ==
    \/ ProviderConfigure
    \/ ResourceConfigure

SpecProvider == InitProvider /\ [][NextProvider]_vars

\* normalizeHTML on every string up to MaxHtmlLen
InitNormalize ==
    /\ norm \in {[raw |-> x, alt |-> x, outs |-> <<>>] :
                    x \in SeqsUpTo(HtmlAlphabet, MaxHtmlLen)}
    /\ pm = PmIdle
    /\ env = GoodEnv /\ prov = NotConfigured /\ r = NewEmailTemplateResource
    /\ ResourceIdle

NextNormalize == NormalizeStep

SpecNormalize == InitNormalize /\ [][NextNormalize]_vars

\* the white space characters of the alphabet
WhiteSpace == {c \in HtmlAlphabet : IsSpace(c)}

InsertAt(s, i, c) == SubSeq(s, 1, i) \o <<c>> \o SubSeq(s, i + 1, Len(s))
RemoveAt(s, i) == SubSeq(s, 1, i - 1) \o SubSeq(s, i + 1, Len(s))

\* s with one line ending changed between CRLF and LF
LineEndingVariants(s) ==
    {RemoveAt(s, i) : i \in {j \in 1..(Len(s) - 1) : s[j] = "\r" /\ s[j + 1] = "\n"}}
    \cup {InsertAt(s, i - 1, "\r") :
             i \in {j \in 1..Len(s) : s[j] = "\n" /\ (j = 1 \/ s[j - 1] # "\r")}}

\* s with one character of a white space run changed for another white space
\* character, or with the run one character longer or shorter
RunVariants(s) ==
    LET at == {j \in 1..Len(s) : IsSpace(s[j])}
        inRun == {j \in at : (j > 1 /\ IsSpace(s[j - 1]))
                              \/ (j < Len(s) /\ IsSpace(s[j + 1]))}
    IN  {[s EXCEPT ![i] = w] : i \in at, w \in WhiteSpace}
        \cup {InsertAt(s, i, w) : i \in at, w \in WhiteSpace}
        \cup {InsertAt(s, i - 1, w) : i \in at, w \in WhiteSpace}
        \cup {RemoveAt(s, i) : i \in inRun}

\* s with white space put between a ">" and the "<" next to it, or with the one
\* white space character between a ">" and a "<" taken out
InterTagVariants(s) ==
    {InsertAt(s, i, w) :
        i \in {j \in 1..(Len(s) - 1) : s[j] = ">" /\ s[j + 1] = "<"}, w \in WhiteSpace}
    \cup {RemoveAt(s, i) :
             i \in {j \in 2..(Len(s) - 1) :
                       s[j - 1] = ">" /\ IsSpace(s[j]) /\ s[j + 1] = "<"}}

Variants(s) == (LineEndingVariants(s) \cup RunVariants(s) \cup InterTagVariants(s)) \ {s}

\* normalizeHTML on every string up to MaxVariantLen and, beside it, on the string
\* itself or on one of its rewritings
InitVariants ==
    /\ \E x \in SeqsUpTo(HtmlAlphabet, MaxVariantLen) :
       \E y \in Variants(x) \cup {x} :
          norm = [raw |-> x, alt |-> y, outs |-> <<>>]
    /\ pm = PmIdle
    /\ env = GoodEnv /\ prov = NotConfigured /\ r = NewEmailTemplateResource
    /\ ResourceIdle

NextVariants == NormalizePair

SpecVariants == InitVariants /\ [][NextVariants]_vars

\* the welcome document as it is stored, and as it is written in the configuration
\* with newlines and indentation between its tags
WelcomeStored ==
    <<"<", "h", "t", "m", "l", ">", "<", "h", "e", "a", "d", ">", "<", "/", "h", "e",
      "a", "d", ">", "<", "b", "o", "d", "y", ">", "<", "h", "2", ">", "W", "e", "l",
      "c", "o", "m", "e", "<", "/", "h", "2", ">", "<", "/", "b", "o", "d", "y", ">",
      "<", "/", "h", "t", "m", "l", ">">>

WelcomePlanned ==
    <<"<", "h", "t", "m", "l", ">", "\n", " ", " ", "<", "h", "e", "a", "d", ">", "<",
      "/", "h", "e", "a", "d", ">", "\n", " ", " ", "<", "b", "o", "d", "y", ">", "<",
      "h", "2", ">", "W", "e", "l", "c", "o", "m", "e", "<", "/", "h", "2", ">", "<",
      "/", "b", "o", "d", "y", ">", "\n", "<", "/", "h", "t", "m", "l", ">">>

\* the plan modifier on every pair of a stored and a planned html value
StoredValues ==
    {NullSeq} \cup {StringValue(h) : h \in SeqsUpTo(HtmlAlphabet, MaxPlanLen)}
    \cup {StringValue(WelcomeStored), StringValue(WelcomePlanned)}
PlannedValues == StoredValues \cup {StringUnknown(<<>>)}

InitModifier ==
    /\ norm = NormIdle
    /\ pm \in [called : {FALSE},
               req : [StateValue : StoredValues, PlanValue : PlannedValues],
               resp : {[PlanValue |-> NullSeq]}]
    /\ env = GoodEnv /\ prov = NotConfigured /\ r = NewEmailTemplateResource
    /\ ResourceIdle

NextModifier == PlanModify

SpecModifier == InitModifier /\ [][NextModifier]_vars

-----------------------------------------------------------------------------
(* Properties *)

IsNotFound(resp) == resp.err /\ ~resp.http.nil /\ resp.http.StatusCode = 404

\* every attribute but id is null
OnlyId(m) == [m EXCEPT !.ID = NullSeq] = NullModel

\* C1: whenever the remote create call fails, Create reports an error diagnostic
\* and writes no local state: the resource stays absent, its id unset.
C1_FailedCreateWritesNoState ==
    (last.op = "Create" /\ last.resp.err)
        => (last.outcome = "returned" /\ HasError(last.Diagnostics) /\ state = NoState)

\* C2: Delete removes local state exactly when the remote delete succeeded or
\* answered 404, without an error diagnostic in the 404 case; every other failure
\* gives an error diagnostic and leaves local state as it was.
C2_DeleteRemovesOnSuccessOr404 ==
    last.op = "Delete" =>
        /\ (state = NoState) <=> (~last.resp.err \/ IsNotFound(last.resp))
        /\ IsNotFound(last.resp) => ~HasError(last.Diagnostics)
        /\ (last.resp.err /\ ~IsNotFound(last.resp))
              => (HasError(last.Diagnostics) /\ state = last.prior /\ state.exists)

C2_Witness ==
    /\ last.op = "Delete" /\ IsNotFound(last.resp)
    /\ last.prior.exists /\ state = NoState /\ last.Diagnostics = <<>>

\* C3: after a successful Update, createdAt is the prior state's createdAt when
\* that is not empty, whatever the response holds, and the time of the Update
\* otherwise; updatedAt is the time of the Update, never the response's.
C3_UpdateKeepsCreatedAt ==
    (last.op = "Update" /\ ~last.resp.err) =>
        LET before == last.prior.m.CreatedAt
            stamps == {StringValue(FormatRFC850(t)) : t \in {u \in 0..now : now <= u + 1}}
        IN  /\ before.value # "" => state.m.CreatedAt = before
            /\ before.value = "" => state.m.CreatedAt \in stamps
            /\ state.m.UpdatedAt = StringValue(FormatRFC850(now))
            /\ state.m.UpdatedAt.value # last.resp.body.t.UpdatedAt

C3_Witness ==
    /\ last.op = "Update" /\ ~last.resp.err
    /\ last.prior.m.CreatedAt = StringValue("2020-01-01T00:00:00Z")
    /\ last.resp.body.t.CreatedAt = ""
    /\ state.m.CreatedAt = StringValue("2020-01-01T00:00:00Z")

\* C4: whenever the remote call of a Read or an Update fails, the handler reports
\* an error diagnostic and local state is, field for field, what it was before.
C4_FailedReadUpdateKeepState ==
    (last.op \in {"Read", "Update"} /\ last.resp.err)
        => (HasError(last.Diagnostics) /\ state = last.prior)

C4_Witness ==
    /\ last.op = "Update" /\ last.resp.err
    /\ state.exists /\ state = last.prior /\ HasError(last.Diagnostics)

\* C5: the plan modifier of html: when the stored and the planned value are both
\* set and normalize to the same string, the planned value becomes the stored one;
\* when either is absent, or they normalize to different strings, the planned
\* value stays as it was.
C5_SuppressionByNormalForm ==
    pm.called =>
        LET s == pm.req.StateValue
            p == pm.req.PlanValue
            set == s.kind = "known" /\ p.kind = "known"
        IN  /\ (set /\ normalizeHTML(s.value) = normalizeHTML(p.value))
                  => pm.resp.PlanValue = s
            /\ (IsNull(s) \/ IsNull(p)) => pm.resp.PlanValue = p
            /\ (set /\ normalizeHTML(s.value) # normalizeHTML(p.value))
                  => pm.resp.PlanValue = p

C5_Witness ==
    /\ pm.called
    /\ pm.req.StateValue = StringValue(WelcomeStored)
    /\ pm.req.PlanValue = StringValue(WelcomePlanned)
    /\ pm.resp.PlanValue = StringValue(WelcomeStored)

\* C6: normalizeHTML is idempotent: applied to its own result it changes nothing.
C6_NormalizeIdempotent ==
    Len(norm.outs) = 2 => norm.outs[2] = norm.outs[1]

C6_Witness ==
    /\ norm.raw = <<">", "\r", "\n", "<">>
    /\ norm.outs = << <<">", "<">>, <<">", "<">> >>

C8_FailedConfigureHandsNoClient ==
    (prov.called /\ HasError(prov.res.Diagnostics))
        => (prov.res.ResourceData.nil /\ prov.res.DataSourceData.nil
            /\ r.infobipClient.nil)

\* C9: once local state holds an id, a successful Read or Update leaves it as it
\* was, and every remote call of Read, Update and Delete is addressed to that id.
C9_IdNeverChanges ==
    /\ (last.op \in {"Read", "Update"} /\ ~last.resp.err)
          => state.m.ID = last.prior.m.ID
    /\ last.op \in {"Read", "Update", "Delete"}
          => Sprintf(last.id) = last.prior.m.ID.value

\* C10: ImportState(x) leaves a state whose id is x as given and whose other
\* attributes are all null, without a call to the remote service; while the
\* import waits for its Read, only a successful Read sets the other attributes.
C10_ImportSeedsIdOnly ==
    /\ [][(~importing /\ importing')
            => /\ last'.op = "ImportState" /\ ~last'.called
               /\ state'.exists
               /\ state'.m.ID = StringValue(last'.importId)
               /\ OnlyId(state'.m)
               /\ remote' = remote]_vars
    /\ [][(importing /\ state' # state /\ state'.exists)
            => (last'.op = "Read" /\ ~last'.resp.err /\ ~OnlyId(state'.m)
                /\ last'.prior = state)]_vars
    /\ [](importing => (state.exists /\ OnlyId(state.m)))

C10_Witness ==
    /\ importing /\ last.op = "ImportState"
    /\ state.m.ID = StringValue(<<"0", "1">>) /\ OnlyId(state.m)

\* C11: when a Create whose request succeeded is followed by a successful Read of
\* the id that Create was given, the Read leaves name, from and subject in local
\* state equal to the values the Create sent; the remote stores what it is sent.
C11_CreateReadRoundTrip ==
    [][(/\ last.op = "Create" /\ ~last.resp.err
        /\ last'.op = "Read" /\ ~last'.resp.err
        /\ last'.id = last.resp.body.t.ID)
          => /\ state'.exists
             /\ state'.m.Name = StringValue(last.sent.Name)
             /\ state'.m.From = StringValue(last.sent.From)
             /\ state'.m.Subject = StringValue(last.sent.Subject)]_vars

C11_Witness ==
    /\ last.op = "Read" /\ ~last.resp.err /\ last.afterCreate
    /\ last.id = MaxId
    /\ state.m.Name = StringValue("n2")
    /\ state.m.From = StringValue("f2")
    /\ state.m.Subject = StringValue("s2")

C12_Edges(s) == Len(s) > 0 => (~IsSpace(s[1]) /\ ~IsSpace(s[Len(s)]))

C12_NoControl(s) == \A i \in 1..Len(s) : s[i] \notin {"\r", "\t", "\n"}

C12_NoSpaceRun(s) == \A i \in 1..(Len(s) - 1) : ~(s[i] = " " /\ s[i + 1] = " ")

C12_NoInterTag(s) ==
    \A i \in 1..Len(s) : \A j \in (i + 2)..Len(s) :
       ~(/\ s[i] = ">" /\ s[j] = "<"
         /\ \A k \in (i + 1)..(j - 1) : IsSpace(s[k]))

\* C12: the result of normalizeHTML neither starts nor ends with white space, holds
\* no CR, tab or LF, no two spaces in a row and no white space between a ">" and
\* the "<" after it; and an input and its rewriting by a line ending (CRLF or LF),
\* by the length or kind of a white space run, or by white space between tags,
\* have the same result.
C12_NormalizeOutputShape ==
    norm.outs # <<>>
       => /\ \A k \in 1..Len(norm.outs) :
                /\ C12_Edges(norm.outs[k]) /\ C12_NoControl(norm.outs[k])
                /\ C12_NoSpaceRun(norm.outs[k]) /\ C12_NoInterTag(norm.outs[k])
          /\ norm.outs[1] = norm.outs[2]

C12_Witness ==
    /\ norm.raw = <<">", "\n", "<">>
    /\ norm.alt = <<">", "\r", "\n", "<">>
    /\ norm.outs = <<(<<">", "<">>), (<<">", "<">>)>>

\* C13: after a successful Create or Update, and after the successful Reads that
\* follow, the html in local state is a fixed point of normalizeHTML; and a plan
\* computed from the configured html of that Create or Update has its html
\* suppressed to the stored value, so that no html change is planned.
C13_NoPerpetualHtmlDiff ==
    /\ (/\ last.op \in {"Create", "Update", "Read"} /\ ~last.resp.err
        /\ ~IsNull(last.applied))
          => /\ state.exists
             /\ normalizeHTML(ValueString(state.m.Html)) = ValueString(state.m.Html)
             /\ normalize(ValueString(state.m.Html)) = ValueString(state.m.Html)
    /\ (/\ last.op = "Plan" /\ plan.exists /\ state.exists
        /\ ~IsNull(last.applied) /\ plan.configHtml = last.applied)
          => plan.m.Html = state.m.Html

C13_Witness ==
    /\ last.op = "Plan" /\ plan.exists /\ state.exists
    /\ last.applied = StringValue(HtmlSpaced)
    /\ plan.configHtml = StringValue(HtmlSpaced)
    /\ state.m.Html = StringValue(HtmlDense)
    /\ plan.m.Html = StringValue(HtmlDense)

====
